---- MODULE Spec2Model ----
(***************************************************************************)
(* mfdread.py - Mifare Classic dump reader.                                *)
(*                                                                         *)
(* Three specifications over one set of variables:                         *)
(*   Spec     print_info run on a dump (sector walk, access-bit decode,    *)
(*            report rows), with Options.FORCE_1K either way;              *)
(*   SpecAcc  accbits_for_blocknum / accbit_info applied to 32-bit access  *)
(*            fields;                                                      *)
(*   SpecVB   is_value_block applied to 16-byte blocks given as hex.       *)
(*                                                                         *)
(* Python values: a bytes object is a sequence of 0..255, a hex string is  *)
(* a sequence of hex digits 0..15, a BitArray is a sequence of 0/1 indexed *)
(* from 0 at the most significant bit, BitArray.bin and the permission     *)
(* texts are strings.  Terminal colour codes and the UID/SAK/ATQA header   *)
(* lines are presentation only and are not part of the state.              *)
(***************************************************************************)
EXTENDS Integers, Sequences, FiniteSets, TLC

VARIABLES
    FORCE_1K,       \* Options.FORCE_1K
    data,           \* the dump handed to print_info (bytes)
    pc,             \* position inside print_info
    data_size,      \* local data_size
    sector_number,  \* local sector_number
    start,          \* local start (slice window)
    end,            \* local end (slice window)
    blocksmatrix,   \* list of sectors, each a list of 32-digit hex blocks
    blockrights,    \* dict sector index -> accbit_info result
    c,              \* loop index of the access-bit loop
    q,              \* loop index of the report loop
    block_number,   \* running global block number of the report
    rows,           \* rows printed for the last reported sector
    exit_msg,       \* how the run ended abnormally ("" when it did not)
    accbits,        \* SpecAcc: the access field under test (BitArray)
    block,          \* SpecVB: the block under test (hex string)
    base,           \* SpecAcc/SpecVB: the input before any bit was flipped
    flips,          \* SpecAcc/SpecVB: positions of the bits flipped so far
    call            \* SpecAcc/SpecVB: the last call made and what it returned

mainvars == <<FORCE_1K, data, pc, data_size, sector_number, start, end,
              blocksmatrix, blockrights, c, q, block_number, rows, exit_msg>>
unitvars == <<accbits, block, base, flips, call>>
vars == <<FORCE_1K, data, pc, data_size, sector_number, start, end,
          blocksmatrix, blockrights, c, q, block_number, rows, exit_msg,
          accbits, block, base, flips, call>>

(***************************************************************************)
(* Python helpers                                                          *)
(***************************************************************************)

\* s[i] with Python's 0-based index
At(s, i) == s[i + 1]

\* s[a:b] on a sequence, with Python's clamping of both ends
Slice(s, a, b) ==
    LET lo == IF a > Len(s) THEN Len(s) ELSE a
        hi == IF b > Len(s) THEN Len(s) ELSE b
    IN IF hi <= lo THEN <<>> ELSE SubSeq(s, lo + 1, hi)

Min(a, b) == IF a < b THEN a ELSE b

\* the value Python's False; a BitArray is never empty here, so the empty
\* sequence stands for it and isinstance(x, BitArray) is x # PyFalse
PyFalse == <<>>

\* dict.get(k, default); defaultdict(lambda: False)[k] is DictGet(d, k, PyFalse)
DictGet(d, k, default) == IF k \in DOMAIN d THEN d[k] ELSE default

\* BitArray.bin : the bits as a text of '0' and '1'
RECURSIVE Bin(_)
Bin(bits) ==
    IF bits = <<>> THEN ""
    ELSE (IF Head(bits) = 1 THEN "1" ELSE "0") \o Bin(Tail(bits))

\* BitArray.invert()
Invert(bits) == [i \in 1..Len(bits) |-> 1 - bits[i]]

\* the four bits of one hex digit, most significant first
NibbleBits(n) == <<(n \div 8) % 2, (n \div 4) % 2, (n \div 2) % 2, n % 2>>

\* BitArray('0x' + hexdigits)
RECURSIVE BitArrayFromHex(_)
BitArrayFromHex(h) ==
    IF h = <<>> THEN <<>> ELSE NibbleBits(Head(h)) \o BitArrayFromHex(Tail(h))

\* codecs.encode(bytes, 'hex') : two hex digits per byte, high digit first
HexEncode(bs) ==
    [i \in 1..(2 * Len(bs)) |->
        IF i % 2 = 1 THEN bs[(i + 1) \div 2] \div 16 ELSE bs[i \div 2] % 16]

\* bytes.fromhex(hexdigits)
FromHex(h) == [i \in 1..(Len(h) \div 2) |-> 16 * h[2 * i - 1] + h[2 * i]]

\* a ^ b on 8-bit values
RECURSIVE XorBits(_, _, _)
XorBits(a, b, n) ==
    IF n = 0 THEN 0
    ELSE ((a + b) % 2) + 2 * XorBits(a \div 2, b \div 2, n - 1)
Xor(a, b) == XorBits(a, b, 8)

(***************************************************************************)
(* accbits_for_blocknum, the permission tables, accbit_info                *)
(***************************************************************************)

\* variant: the branch for block 1 checks against bit 7, which belongs to block 0
accbits_for_blocknum_SharedCheck(accbits_str, blocknum) ==
    LET a == accbits_str
        bits ==
            CASE blocknum = 0 -> <<At(a, 11), At(a, 23), At(a, 19)>>
              [] blocknum = 1 -> <<At(a, 10), At(a, 22), At(a, 18)>>
              [] blocknum = 2 -> <<At(a, 9), At(a, 21), At(a, 17)>>
              [] blocknum \in {3, 15} -> <<At(a, 8), At(a, 20), At(a, 16)>>
              [] OTHER -> <<0>>
        inverted ==
            CASE blocknum = 0 -> <<At(a, 7), At(a, 3), At(a, 15)>>
              [] blocknum = 1 -> <<At(a, 7), At(a, 2), At(a, 14)>>
              [] blocknum = 2 -> <<At(a, 5), At(a, 1), At(a, 13)>>
              [] blocknum \in {3, 15} -> <<At(a, 4), At(a, 0), At(a, 12)>>
              [] OTHER -> <<0>>
    IN IF Bin(bits) = Bin(Invert(inverted)) THEN bits ELSE PyFalse

\* variant: the trailer branch reads its second and third pair in the other order
accbits_for_blocknum_SwappedOrder(accbits_str, blocknum) ==
    LET a == accbits_str
        bits ==
            CASE blocknum = 0 -> <<At(a, 11), At(a, 23), At(a, 19)>>
              [] blocknum = 1 -> <<At(a, 10), At(a, 22), At(a, 18)>>
              [] blocknum = 2 -> <<At(a, 9), At(a, 21), At(a, 17)>>
              [] blocknum \in {3, 15} -> <<At(a, 8), At(a, 16), At(a, 20)>>
              [] OTHER -> <<0>>
        inverted ==
            CASE blocknum = 0 -> <<At(a, 7), At(a, 3), At(a, 15)>>
              [] blocknum = 1 -> <<At(a, 6), At(a, 2), At(a, 14)>>
              [] blocknum = 2 -> <<At(a, 5), At(a, 1), At(a, 13)>>
              [] blocknum \in {3, 15} -> <<At(a, 4), At(a, 12), At(a, 0)>>
              [] OTHER -> <<0>>
    IN IF Bin(bits) = Bin(Invert(inverted)) THEN bits ELSE PyFalse

\* lines 46-78
accbits_for_blocknum(accbits_str, blocknum) ==
    LET a == accbits_str
        bits ==
            CASE blocknum = 0 -> <<At(a, 11), At(a, 23), At(a, 19)>>
              [] blocknum = 1 -> <<At(a, 10), At(a, 22), At(a, 18)>>
              [] blocknum = 2 -> <<At(a, 9), At(a, 21), At(a, 17)>>
              [] blocknum \in {3, 15} -> <<At(a, 8), At(a, 20), At(a, 16)>>
              [] OTHER -> <<0>>
        inverted ==
            CASE blocknum = 0 -> <<At(a, 7), At(a, 3), At(a, 15)>>
              [] blocknum = 1 -> <<At(a, 6), At(a, 2), At(a, 14)>>
              [] blocknum = 2 -> <<At(a, 5), At(a, 1), At(a, 13)>>
              [] blocknum \in {3, 15} -> <<At(a, 4), At(a, 0), At(a, 12)>>
              [] OTHER -> <<0>>
    IN IF Bin(bits) = Bin(Invert(inverted)) THEN bits ELSE PyFalse

sector_permissions ==
    ("000" :> "- A | A   - | A A [read B]") @@
    ("010" :> "- - | A   - | A - [read B]") @@
    ("100" :> "- B | A/B - | - B") @@
    ("110" :> "- - | A/B - | - -") @@
    ("001" :> "- A | A   A | A A [transport]") @@
    ("011" :> "- B | A/B B | - B") @@
    ("101" :> "- - | A/B B | - -") @@
    ("111" :> "- - | A/B - | - -")

data_permissions ==
    ("000" :> "A/B | A/B   | A/B | A/B [transport]") @@
    ("010" :> "A/B |  -    |  -  |  -  [r/w]") @@
    ("100" :> "A/B |   B   |  -  |  -  [r/w]") @@
    ("110" :> "A/B |   B   |   B | A/B [value]") @@
    ("001" :> "A/B |  -    |  -  | A/B [value]") @@
    ("011" :> "  B |   B   |  -  |  -  [r/w]") @@
    ("101" :> "  B |  -    |  -  |  -  [r/w]") @@
    ("111" :> " -  |  -    |  -  |  -  [r/w]")

accbits_to_permission_sector(bits) ==
    IF bits # PyFalse THEN DictGet(sector_permissions, Bin(bits), "unknown") ELSE ""

accbits_to_permission_data(bits) ==
    IF bits # PyFalse THEN DictGet(data_permissions, Bin(bits), "unknown") ELSE ""

\* the defaultdict returned, as the function on the keys that were assigned
accbit_info(bits, sector_size) ==
    IF sector_size = 15
    THEN (15 :> accbits_for_blocknum(bits, sector_size))
    ELSE [i \in 0..3 |-> accbits_for_blocknum(bits, i)]

(***************************************************************************)
(* is_value_block                                                          *)
(***************************************************************************)

\* variant: byte 15 is not compared with byte 13
is_value_block_NoByte15(blk) ==
    LET b == FromHex(blk)
    IN  /\ (At(b, 0) = At(b, 8) /\ Xor(At(b, 0), 255) = At(b, 4))
        /\ (At(b, 1) = At(b, 9) /\ Xor(At(b, 1), 255) = At(b, 5))
        /\ (At(b, 2) = At(b, 10) /\ Xor(At(b, 2), 255) = At(b, 6))
        /\ (At(b, 3) = At(b, 11) /\ Xor(At(b, 3), 255) = At(b, 7))
        /\ (At(b, 12) = At(b, 14)
            /\ Xor(At(b, 12), 255) = At(b, 13))

\* lines 131-138
is_value_block(blk) ==
    LET b == FromHex(blk)
    IN  /\ (At(b, 0) = At(b, 8) /\ Xor(At(b, 0), 255) = At(b, 4))
        /\ (At(b, 1) = At(b, 9) /\ Xor(At(b, 1), 255) = At(b, 5))
        /\ (At(b, 2) = At(b, 10) /\ Xor(At(b, 2), 255) = At(b, 6))
        /\ (At(b, 3) = At(b, 11) /\ Xor(At(b, 3), 255) = At(b, 7))
        /\ (At(b, 12) = At(b, 14) /\ At(b, 13) = At(b, 15)
            /\ Xor(At(b, 12), 255) = At(b, 13))

(***************************************************************************)
(* Inputs: access fields and blocks as a card stores them                  *)
(***************************************************************************)

\* at most this many bits of an input are flipped
MaxFlips == 1

\* dump lengths next to an accepted one differ from it by at most this much
MaxSizeSkew == 1

Codes == {<<x, y, z>> : x \in {0, 1}, y \in {0, 1}, z \in {0, 1}}

ByteBits(b) == NibbleBits(b \div 16) \o NibbleBits(b % 16)

\* bit k (1..3) of the four groups, stored for groups 3,2,1,0 in that order
GroupNibble(f, k) == <<f[3][k], f[2][k], f[1][k], f[0][k]>>

\* The 32-bit access field of a trailer (bytes 6..9): byte 6 holds the check
\* bits of C2 and C1, byte 7 holds C1 and the check bits of C3, byte 8 holds
\* C3 and C2, byte 9 is the general purpose byte.  perm and chk give, per
\* group 0..3, the permission bits <<C1,C2,C3>> and the bits stored as
\* their check; a card stores chk[g] = Invert(perm[g]).
AccessField(perm, chk, gpb) ==
    GroupNibble(chk, 2) \o GroupNibble(chk, 1) \o
    GroupNibble(perm, 1) \o GroupNibble(chk, 3) \o
    GroupNibble(perm, 3) \o GroupNibble(perm, 2) \o ByteBits(gpb)

ValidField(perm, gpb) == AccessField(perm, [g \in 0..3 |-> Invert(perm[g])], gpb)

Uniform(code) == [g \in 0..3 |-> code]

\* fields in which one group carries any permission bits and any check
\* bits and the other three are consistently encoded
AccInputs ==
    { AccessField([h \in 0..3 |-> IF h = g THEN p ELSE d],
                  [h \in 0..3 |-> IF h = g THEN k ELSE Invert(d)], 105) :
        g \in 0..3, p \in Codes, k \in Codes,
        d \in {<<0, 0, 0>>, <<1, 0, 1>>, <<1, 1, 0>>} }

\* the bits of byte 6 and of the low half of byte 7: the stored check bits
CheckPositions == (0..7) \cup (12..15)

Blocknums == {0, 1, 2, 3, 7, 15}

FlipAt(bits, p) == [i \in 1..Len(bits) |-> IF i = p + 1 THEN 1 - bits[i] ELSE bits[i]]

\* a value block: value, complemented value, value, then addr, ~addr, addr, ~addr
ValueBlock(v, a) ==
    v \o [i \in 1..4 |-> 255 - v[i]] \o v \o <<a, 255 - a, a, 255 - a>>

CanonicalValueBlock == ValueBlock(<<0, 0, 0, 1>>, 1)

BlockInputs ==
    { HexEncode(ValueBlock(v, a)) :
        v \in {<<0, 0, 0, 1>>, <<255, 255, 255, 255>>, <<18, 52, 86, 120>>},
        a \in {1, 0, 165} }
    \cup { HexEncode([i \in 1..16 |-> 0]), HexEncode([i \in 1..16 |-> 255]),
           HexEncode([i \in 1..16 |-> 17 * (i - 1)]) }

\* bit p (0..127, most significant bit of byte 0 first) of a hex block flipped
FlipHexBit(h, p) ==
    [i \in 1..Len(h) |->
        IF i = (p \div 4) + 1
        THEN LET w == 2 ^ (3 - (p % 4))
             IN IF (h[i] \div w) % 2 = 1 THEN h[i] - w ELSE h[i] + w
        ELSE h[i]]

NoCall == [fn |-> "none", arg |-> <<>>, ret |-> <<>>]

\* the state of print_info's variables while only unit calls are made
MainIdle ==
    /\ FORCE_1K = FALSE /\ data = <<>> /\ pc = "idle" /\ data_size = 0
    /\ sector_number = 0 /\ start = 0 /\ end = 0 /\ blocksmatrix = <<>>
    /\ blockrights = <<>> /\ c = 0 /\ q = 0 /\ block_number = 0
    /\ rows = <<>> /\ exit_msg = ""

UnitIdle ==
    /\ accbits = <<>> /\ block = <<>> /\ base = <<>> /\ flips = {}
    /\ call = NoCall

(***************************************************************************)
(* SpecAcc: accbits_for_blocknum and accbit_info on access fields          *)
(***************************************************************************)

InitAcc ==
    /\ MainIdle
    /\ accbits \in AccInputs
    /\ base = accbits
    /\ block = <<>>
    /\ flips = {}
    /\ call = NoCall

FlipAccBit(p) ==
    /\ Cardinality(flips) < MaxFlips
    /\ p \notin flips
    /\ accbits' = FlipAt(accbits, p)
    /\ flips' = flips \cup {p}
    /\ call' = NoCall
    /\ UNCHANGED <<block, base>>
    /\ UNCHANGED mainvars

CallBlocknum(g) ==
    /\ call' = [fn |-> "accbits_for_blocknum", arg |-> g,
                ret |-> accbits_for_blocknum(accbits, g)]
    /\ UNCHANGED <<accbits, block, base, flips>>
    /\ UNCHANGED mainvars

CallInfo(sector_size) ==
    /\ call' = [fn |-> "accbit_info", arg |-> sector_size,
                ret |-> accbit_info(accbits, sector_size)]
    /\ UNCHANGED <<accbits, block, base, flips>>
    /\ UNCHANGED mainvars

NextAcc ==
    \/ \E p \in CheckPositions : FlipAccBit(p)
    \/ \E g \in Blocknums : CallBlocknum(g)
    \/ \E s \in {3, 15} : CallInfo(s)

SpecAcc == InitAcc /\ [][NextAcc]_vars

(***************************************************************************)
(* SpecVB: is_value_block on blocks                                        *)
(***************************************************************************)

InitVB ==
    /\ MainIdle
    /\ block \in BlockInputs
    /\ base = block
    /\ accbits = <<>>
    /\ flips = {}
    /\ call = NoCall

FlipBlockBit(p) ==
    /\ Cardinality(flips) < MaxFlips
    /\ p \notin flips
    /\ block' = FlipHexBit(block, p)
    /\ flips' = flips \cup {p}
    /\ call' = NoCall
    /\ UNCHANGED <<accbits, base>>
    /\ UNCHANGED mainvars

CallIsValueBlock ==
    /\ call' = [fn |-> "is_value_block", arg |-> block,
                ret |-> is_value_block(block)]
    /\ UNCHANGED <<accbits, block, base, flips>>
    /\ UNCHANGED mainvars

NextVB ==
    \/ \E p \in 0..127 : FlipBlockBit(p)
    \/ CallIsValueBlock

SpecVB == InitVB /\ [][NextVB]_vars

(***************************************************************************)
(* Dumps: card images as a reader writes them to a file                    *)
(***************************************************************************)

AcceptedSizes == {4096, 1024, 320}

\* lengths print_info must refuse
OddSizes ==
    {0, 2048} \cup
    { n + k : n \in AcceptedSizes, k \in (-MaxSizeSkew..MaxSizeSkew) \ {0} }

BitsToBytes(bits) ==
    [i \in 1..(Len(bits) \div 8) |->
        128 * bits[8 * i - 7] + 64 * bits[8 * i - 6] + 32 * bits[8 * i - 5]
        + 16 * bits[8 * i - 4] + 8 * bits[8 * i - 3] + 4 * bits[8 * i - 2]
        + 2 * bits[8 * i - 1] + bits[8 * i]]

\* FF 0F 00 69 : code 000 for all four groups, correctly complemented
TransportAll == BitsToBytes(ValidField(Uniform(<<0, 0, 0>>), 105))
\* FF 07 80 69 : the factory setting (data 000, trailer 001)
FactoryDefault == <<255, 7, 128, 105>>
ZeroField == <<0, 0, 0, 0>>
MixedField ==
    BitsToBytes(ValidField(
        (0 :> <<1, 1, 0>>) @@ (1 :> <<0, 0, 1>>) @@ (2 :> <<1, 0, 0>>) @@
        (3 :> <<0, 1, 1>>), 105))
\* TransportAll with the check bit at position 7 wrong
BrokenField == BitsToBytes(FlipAt(ValidField(Uniform(<<0, 0, 0>>), 105), 7))

Sector0Fields ==
    { BitsToBytes(ValidField(Uniform(cd), 105)) : cd \in Codes }
    \cup {FactoryDefault, ZeroField, MixedField, BrokenField}

OtherFields ==
    {ZeroField, FactoryDefault, MixedField,
     BitsToBytes(ValidField(Uniform(<<1, 0, 1>>), 105))}

\* the byte at offset off of a card: sectors 0..31 have 4 blocks, sectors 32..
\* have 16; the last block of a sector is its trailer and carries the access
\* field in bytes 6..9 (a0 in sector 0, ar elsewhere); with fill, block 1 of
\* every sector is the canonical value block; every other byte is zero
CardByte(off, a0, ar, fill) ==
    LET small == off < 2048
        sec == IF small THEN off \div 64 ELSE 32 + ((off - 2048) \div 256)
        blk == IF small THEN (off % 64) \div 16 ELSE ((off - 2048) % 256) \div 16
        last == IF small THEN 3 ELSE 15
        i == off % 16
    IN IF blk = last /\ i \in 6..9
       THEN (IF sec = 0 THEN a0 ELSE ar)[i - 5]
       ELSE IF fill /\ blk = 1 THEN CanonicalValueBlock[i + 1]
       ELSE 0

CardImage(n, a0, ar, fill) == [j \in 1..n |-> CardByte(j - 1, a0, ar, fill)]

Dumps ==
    { CardImage(n, a0, ar, fill) :
        n \in AcceptedSizes, a0 \in Sector0Fields, ar \in OtherFields,
        fill \in BOOLEAN }
    \cup { CardImage(n, FactoryDefault, FactoryDefault, FALSE) : n \in OddSizes }

(***************************************************************************)
(* Spec: print_info                                                        *)
(***************************************************************************)

\* line 147
SizeAccepted(n) == n \in {4096, 1024, 320}

\* lines 145, 150-151 : the offset at which the sector walk stops
WalkLimit(n, force) == IF force THEN 1024 ELSE n

\* variant: blocks of 16 hex digits
Chunks_Half(sector) ==
    [k \in 1..((Len(sector) + 15) \div 16) |->
        Slice(sector, 16 * (k - 1), 16 * (k - 1) + 16)]

\* line 162 : a sector's hex text cut into blocks of 32 digits
Chunks(sector) ==
    [k \in 1..((Len(sector) + 31) \div 32) |->
        Slice(sector, 32 * (k - 1), 32 * (k - 1) + 32)]

\* variant: the window is not widened at sector 32
NextWindow_KeepsWidth(sn, st, en) ==
    IF sn < 32 THEN <<st + 64, en + 64>>
    ELSE IF sn = 32 THEN <<st + 64, en + 64>>
    ELSE <<st + 256, en + 256>>

\* lines 168-176 : the next slice window, sn being the incremented sector_number
NextWindow(sn, st, en) ==
    IF sn < 32 THEN <<st + 64, en + 64>>
    ELSE IF sn = 32 THEN <<st + 64, en + 256>>
    ELSE <<st + 256, en + 256>>

\* variant: the slice starts at Key B
TrailerAccessBits_KeyB(trailer) == BitArrayFromHex(Slice(trailer, 20, 28))

\* line 188 : the access field of a trailer as a BitArray
TrailerAccessBits(trailer) == BitArrayFromHex(Slice(trailer, 12, 20))

\* lines 242-245 : the Access column
AccessText(rights) == IF rights # PyFalse THEN Bin(rights) ELSE "ERR"

\* variant: the trailer is taken to be block 3 of every sector
Permissions_TrailerIsBlock3(qq, z, n_blocks, rights) ==
    IF qq = 0 /\ z = 0 THEN "-"
    ELSE IF z = 3 THEN accbits_to_permission_sector(rights)
    ELSE accbits_to_permission_data(rights)

\* lines 247-253 : the permission column of block z of sector qq
Permissions(qq, z, n_blocks, rights) ==
    IF qq = 0 /\ z = 0 THEN "-"
    ELSE IF z = n_blocks - 1 THEN accbits_to_permission_sector(rights)
    ELSE accbits_to_permission_data(rights)

\* lines 239-268 : the row printed for block z of sector qq
Row(qq, z, sector, rights, number) ==
    [ qn |-> IF z = 2 THEN <<qq>> ELSE <<>>,
      block_number |-> number,
      data |-> At(sector, z),
      value |-> is_value_block(At(sector, z)),
      accbits |-> AccessText(DictGet(rights, z, PyFalse)),
      permissions |-> Permissions(qq, z, Len(sector), DictGet(rights, z, PyFalse)) ]

Init ==
    /\ UnitIdle
    /\ FORCE_1K \in BOOLEAN
    /\ data \in Dumps
    /\ pc = "start"
    /\ data_size = 0
    /\ sector_number = 0
    /\ start = 0
    /\ end = 0
    /\ blocksmatrix = <<>>
    /\ blockrights = <<>>
    /\ c = 0
    /\ q = 0
    /\ block_number = 0
    /\ rows = <<>>
    /\ exit_msg = ""

\* variant: the override is applied before the length is checked
CheckSize_OverrideFirst ==
    /\ pc = "start"
    /\ IF SizeAccepted(WalkLimit(Len(data), FORCE_1K))
       THEN /\ data_size' = WalkLimit(Len(data), FORCE_1K)
            /\ start' = 0
            /\ end' = 64
            /\ pc' = "walk"
            /\ exit_msg' = ""
       ELSE /\ pc' = "exit"
            /\ exit_msg' = "Wrong file size"
            /\ UNCHANGED <<data_size, start, end>>
    /\ UNCHANGED <<FORCE_1K, data, sector_number, blocksmatrix, blockrights,
                   c, q, block_number, rows>>
    /\ UNCHANGED unitvars

\* lines 141-156 : the length check, the override, the first window
CheckSize ==
    /\ pc = "start"
    /\ IF SizeAccepted(Len(data))
       THEN /\ data_size' = WalkLimit(Len(data), FORCE_1K)
            /\ start' = 0
            /\ end' = 64
            /\ pc' = "walk"
            /\ exit_msg' = ""
       ELSE /\ pc' = "exit"
            /\ exit_msg' = "Wrong file size"
            /\ UNCHANGED <<data_size, start, end>>
    /\ UNCHANGED <<FORCE_1K, data, sector_number, blocksmatrix, blockrights,
                   c, q, block_number, rows>>
    /\ UNCHANGED unitvars

\* lines 157-179 : one pass of the while loop
ReadSector ==
    /\ pc = "walk"
    /\ LET sector == HexEncode(Slice(data, start, end))
           w == NextWindow(sector_number + 1, start, end)
       IN /\ blocksmatrix' = Append(blocksmatrix, Chunks(sector))
          /\ sector_number' = sector_number + 1
          /\ start' = w[1]
          /\ end' = w[2]
          /\ pc' = IF w[1] = data_size THEN "accbits" ELSE "walk"
    /\ UNCHANGED <<FORCE_1K, data, data_size, blockrights, c, q, block_number,
                   rows, exit_msg>>
    /\ UNCHANGED unitvars

\* lines 184-195 : one pass of the access-bit loop.  An empty sector makes
\* blocksmatrix[c][-1] raise IndexError, which nothing catches.
DecodeSector ==
    /\ pc = "accbits"
    /\ LET sector == At(blocksmatrix, c)
           sector_size == Len(sector) - 1
       IN IF sector_size = -1
          THEN /\ pc' = "raise"
               /\ exit_msg' = "IndexError"
               /\ UNCHANGED <<blockrights, c>>
          ELSE /\ blockrights' =
                     (c :> accbit_info(TrailerAccessBits(At(sector, sector_size)),
                                       sector_size)) @@ blockrights
               /\ c' = c + 1
               /\ pc' = IF c + 1 = Len(blocksmatrix) THEN "report" ELSE "accbits"
               /\ exit_msg' = ""
    /\ UNCHANGED <<FORCE_1K, data, data_size, sector_number, start, end,
                   blocksmatrix, q, block_number, rows>>
    /\ UNCHANGED unitvars

\* lines 234-268 : one pass of the report loop, all blocks of sector q.
\* Reading blockrights[q][z] stores False under every key z it lacked.
ReportSector ==
    /\ pc = "report"
    /\ LET sector == At(blocksmatrix, q)
           n_blocks == Len(sector)
           rights == blockrights[q]
       IN /\ rows' = [k \in 1..n_blocks |->
                         Row(q, k - 1, sector, rights, block_number + k - 1)]
          /\ blockrights' =
                [blockrights EXCEPT ![q] =
                    [z \in (DOMAIN rights) \cup (0..(n_blocks - 1)) |->
                        DictGet(rights, z, PyFalse)]]
          /\ block_number' = block_number + n_blocks
    /\ q' = q + 1
    /\ pc' = IF q + 1 = Len(blocksmatrix) THEN "done" ELSE "report"
    /\ UNCHANGED <<FORCE_1K, data, data_size, sector_number, start, end,
                   blocksmatrix, c, exit_msg>>
    /\ UNCHANGED unitvars

Next ==
    \/ CheckSize
    \/ ReadSector
    \/ DecodeSector
    \/ ReportSector

Spec == Init /\ [][Next]_vars

(***************************************************************************)
(* Properties of SpecAcc                                                   *)
(***************************************************************************)

\* the bit positions the specification gives for a group: permission bits
\* in read order, and the check bit paired with each
PermPositions(g) ==
    IF g \in {3, 15} THEN <<8, 20, 16>> ELSE <<11 - g, 23 - g, 19 - g>>
PairedCheckPositions(g) ==
    IF g \in {3, 15} THEN <<4, 0, 12>> ELSE <<7 - g, 3 - g, 15 - g>>

\* C1: for groups 0,1,2,3,15 accbits_for_blocknum returns the three
\* permission bits in read order exactly when every check bit is the
\* complement of its paired permission bit, and False in every other case.
C1_ExtractFollowsBitScheme ==
    (call.fn = "accbits_for_blocknum" /\ call.arg \in {0, 1, 2, 3, 15}) =>
        LET P == PermPositions(call.arg)
            K == PairedCheckPositions(call.arg)
            perm == [i \in 1..3 |-> accbits[P[i] + 1]]
            complemented == \A i \in 1..3 : accbits[K[i] + 1] = 1 - perm[i]
        IN call.ret = IF complemented THEN perm ELSE PyFalse

\* the large-sector group decoded to a code whose three bits are not all equal
C1_Witness ==
    /\ call.fn = "accbits_for_blocknum"
    /\ call.arg = 15
    /\ call.ret = <<1, 0, 1>>

\* C2: in a field whose four groups were all valid, after exactly one check
\* bit of one group is flipped accbit_info gives False for that group and the
\* same code as before for each of the other three groups.
C2_OneCheckBitFlipIsLocal ==
    (/\ call.fn = "accbit_info"
     /\ call.arg = 3
     /\ Cardinality(flips) = 1
     /\ \A h \in 0..3 : accbit_info(base, 3)[h] # PyFalse) =>
        LET p == CHOOSE x \in flips : TRUE
            g == CHOOSE h \in 0..3 :
                    \E i \in 1..3 : PairedCheckPositions(h)[i] = p
        IN /\ call.ret[g] = PyFalse
           /\ \A h \in (0..3) \ {g} : call.ret[h] = accbit_info(base, 3)[h]

\* the third check bit of group 1 (position 14) flipped in a valid field
C2_Witness ==
    /\ call.fn = "accbit_info"
    /\ call.arg = 3
    /\ flips = {14}
    /\ \A h \in 0..3 : accbit_info(base, 3)[h] # PyFalse
    /\ call.ret[1] = PyFalse
    /\ call.ret[0] # PyFalse

(***************************************************************************)
(* Properties of SpecVB                                                    *)
(***************************************************************************)

\* byte i (0..15) of a block given as hex digits
HexByte(h, i) == 16 * h[2 * i + 1] + h[2 * i + 2]

\* the detection rule of the specification, the complement written 255 - x
ValueBlockRule(h) ==
    /\ \A i \in 0..3 :
          /\ HexByte(h, i) = HexByte(h, i + 8)
          /\ 255 - HexByte(h, i) = HexByte(h, i + 4)
    /\ HexByte(h, 12) = HexByte(h, 14)
    /\ HexByte(h, 13) = HexByte(h, 15)
    /\ 255 - HexByte(h, 12) = HexByte(h, 13)

\* 00 00 00 01 FF FF FF FE 00 00 00 01 01 FE 01 FE
CanonicalHex ==
    <<0,0, 0,0, 0,0, 0,1, 15,15, 15,15, 15,15, 15,14,
      0,0, 0,0, 0,0, 0,1, 0,1, 15,14, 0,1, 15,14>>

\* C9: is_value_block accepts exactly the blocks that satisfy the detection
\* rule; it accepts the canonical pattern; and it rejects every accepted
\* block after exactly one of its 128 bits is flipped.
C9_ValueBlockRule ==
    call.fn = "is_value_block" =>
        /\ call.ret = ValueBlockRule(block)
        /\ (block = CanonicalHex => call.ret = TRUE)
        /\ (Cardinality(flips) = 1 /\ ValueBlockRule(base) => call.ret = FALSE)

\* the canonical pattern with one bit of byte 15 flipped was classified
C9_Witness ==
    /\ call.fn = "is_value_block"
    /\ base = CanonicalHex
    /\ \E p \in 120..127 : flips = {p}
    /\ call.ret = FALSE

(***************************************************************************)
(* Properties of Spec                                                      *)
(***************************************************************************)

\* the sector walk has ended
WalkDone == pc \in {"accbits", "report", "done", "raise"}

\* rows of a sector are on display; the sector reported last is q - 1
Reported == pc \in {"report", "done"} /\ rows # <<>>

\* the card geometry: offset of sector n, and its number of blocks
SectorOffset(n) == IF n <= 32 THEN 64 * n ELSE 2048 + 256 * (n - 32)
SectorBlocks(n) == IF n < 32 THEN 4 ELSE 16

\* every block is the 16 bytes of the dump at its place in the card geometry
\* and the blocks together are as long as the dump: the sector windows are
\* contiguous, do not overlap and cover the dump
BlocksTileDump ==
    /\ \A s \in 1..Len(blocksmatrix) :
          \A z \in 1..Len(blocksmatrix[s]) :
              LET off == SectorOffset(s - 1) + 16 * (z - 1)
              IN /\ off + 16 <= Len(data)
                 /\ blocksmatrix[s][z] =
                       HexEncode([i \in 1..16 |-> data[off + i]])
    /\ Len(blocksmatrix) > 0
    /\ SectorOffset(Len(blocksmatrix) - 1)
         + 16 * Len(blocksmatrix[Len(blocksmatrix)]) = Len(data)

CodeTexts == {"000", "001", "010", "011", "100", "101", "110", "111"}

\* C4: without the override the walk over a 1024-byte dump ends with 16
\* sectors of 4 blocks and over a 4096-byte dump with 32 sectors of 4 blocks
\* then 8 of 16 blocks (256 blocks); while it runs the window sits at the
\* next sector's offset, short of a sector boundary that is the dump's end
\* (so it terminates); when the walk has ended, and still when the report
\* has, the blocks tile the dump.
C4_WalkLayout ==
    (~FORCE_1K /\ Len(data) \in {1024, 4096} /\ pc # "start") =>
        /\ \A s \in 1..Len(blocksmatrix) :
              Len(blocksmatrix[s]) = SectorBlocks(s - 1)
        /\ pc = "walk" =>
              /\ Len(blocksmatrix) = sector_number
              /\ start = SectorOffset(sector_number)
              /\ end = SectorOffset(sector_number + 1)
              /\ start < Len(data)
              /\ \E k \in (sector_number + 1)..40 : SectorOffset(k) = Len(data)
        /\ WalkDone =>
              /\ Len(blocksmatrix) = IF Len(data) = 1024 THEN 16 ELSE 40
              /\ sector_number = Len(blocksmatrix)
              /\ (c = 0 \/ pc = "done") => BlocksTileDump

\* a 4096-byte dump walked to its end
C4_Witness ==
    /\ ~FORCE_1K
    /\ Len(data) = 4096
    /\ pc = "accbits"
    /\ Len(blocksmatrix) = 40
    /\ Len(blocksmatrix[40]) = 16

\* C5 as stated: without the override a 320-byte dump yields exactly 20
\* sectors of 4 blocks each.
C5_Mini20Sectors ==
    (~FORCE_1K /\ Len(data) = 320 /\ WalkDone) =>
        /\ Len(blocksmatrix) = 20
        /\ \A s \in 1..Len(blocksmatrix) : Len(blocksmatrix[s]) = 4

\* C5 amended: without the override a 320-byte dump yields exactly 5 sectors
\* of 4 blocks each (20 blocks), all of the small-sector geometry: the
\* sector count stays below 32.
C5_Mini5Sectors ==
    (~FORCE_1K /\ Len(data) = 320) =>
        /\ \A s \in 1..Len(blocksmatrix) : Len(blocksmatrix[s]) = 4
        /\ sector_number < 32
        /\ pc = "walk" => sector_number < 5 /\ start = 64 * sector_number
        /\ WalkDone =>
              /\ Len(blocksmatrix) = 5
              /\ sector_number = 5
              /\ BlocksTileDump
        /\ pc = "done" => block_number = 20

\* a 320-byte dump reported to its last block
C5_Witness ==
    /\ ~FORCE_1K
    /\ Len(data) = 320
    /\ pc = "done"
    /\ Len(blocksmatrix) = 5
    /\ rows[4].block_number = 19

\* C6 as stated: with the override the walk over an accepted dump stops at
\* offset min(length, 1024), every sector it produces has exactly 4 blocks,
\* and a 320-byte dump yields the 5 sectors it yields without the override.
C6_ForcedWalkStaysInside ==
    (FORCE_1K /\ SizeAccepted(Len(data))) =>
        /\ \A s \in 1..Len(blocksmatrix) : Len(blocksmatrix[s]) = 4
        /\ pc = "walk" => start < Min(Len(data), 1024)
        /\ WalkDone =>
              /\ start = Min(Len(data), 1024)
              /\ 64 * Len(blocksmatrix) = Min(Len(data), 1024)

\* C7: a dump whose length is not 320, 1024 or 4096 ends in the size error
\* with no sector sliced, no access bits decoded and nothing reported,
\* with or without the override.
C7_BadSizeAbortsFirst ==
    (~(Len(data) \in {320, 1024, 4096}) /\ pc # "start") =>
        /\ pc = "exit"
        /\ exit_msg = "Wrong file size"
        /\ blocksmatrix = <<>>
        /\ sector_number = 0
        /\ DOMAIN blockrights = {}
        /\ rows = <<>>

\* a 2048-byte dump refused although the override would make it 1024
C7_Witness ==
    /\ FORCE_1K
    /\ Len(data) = 2048
    /\ pc = "exit"
    /\ exit_msg = "Wrong file size"

\* C8: block 0 of sector 0 shows "-"; any other block whose access column
\* is one of the 8 codes shows that code's entry of the trailer table when
\* it is the last block of its sector and of the data table when it is not,
\* and never "unknown".
C8_PermissionShown ==
    Reported =>
        \A k \in 1..Len(rows) :
            IF q - 1 = 0 /\ k = 1
            THEN rows[k].permissions = "-"
            ELSE rows[k].accbits \in CodeTexts =>
                    LET table == IF k = Len(rows) THEN sector_permissions
                                 ELSE data_permissions
                    IN /\ rows[k].accbits \in DOMAIN table
                       /\ rows[k].permissions = table[rows[k].accbits]
                       /\ rows[k].permissions # "unknown"

\* sector 0 with mixed codes: "-" for block 0, data entries for blocks 1 and
\* 2, the trailer entry for block 3
C8_Witness ==
    /\ Reported
    /\ q = 1
    /\ rows[1].accbits = "110" /\ rows[1].permissions = "-"
    /\ rows[2].accbits = "001"
    /\ rows[2].permissions = "A/B |  -    |  -  | A/B [value]"
    /\ rows[4].accbits = "011"
    /\ rows[4].permissions = "- B | A/B B | - B"

\* the access field of the reported sector's trailer, read from its row
ReportedField == BitArrayFromHex(Slice(rows[Len(rows)].data, 12, 20))

\* C3: in a large sector of a 4096-byte dump, when the trailer's bits at
\* 8,20,16 are the complements of those at 4,0,12, every data block 0-14
\* shows that code and its data-block permission.
C3_LargeSectorDataBlocksShareGroup ==
    (Len(data) = 4096 /\ ~FORCE_1K /\ Reported /\ Len(rows) = 16) =>
        LET f == ReportedField
            perm == <<At(f, 8), At(f, 20), At(f, 16)>>
            valid == /\ At(f, 4) = 1 - At(f, 8)
                     /\ At(f, 0) = 1 - At(f, 20)
                     /\ At(f, 12) = 1 - At(f, 16)
        IN valid =>
              \A k \in 1..15 :
                  /\ rows[k].accbits = Bin(perm)
                  /\ rows[k].permissions = data_permissions[Bin(perm)]

\* the 1024-byte dump that is zero except for FF 0F 00 69 in bytes 6..9 of
\* sector 0's trailer (offsets 54..57)
TransportDump ==
    data = [j \in 1..1024 |->
               IF j \in 55..58 THEN <<255, 15, 0, 105>>[j - 54] ELSE 0]

TransportText == "A/B | A/B   | A/B | A/B [transport]"

\* C10 as stated: decoding that dump gives code 000 for every group and the
\* transport description for every data block.
C10_AllBlocksTransport ==
    (TransportDump /\ Reported) =>
        \A k \in 1..Len(rows) :
            /\ rows[k].accbits = "000"
            /\ k < Len(rows) => rows[k].permissions = TransportText

\* C10 amended: decoding that dump gives code 000 for every group of sector
\* 0 and the transport description for data blocks 1 and 2 of sector 0;
\* block 0 of sector 0 shows "-", and in sectors 1-15, whose trailers are
\* zero, every group is invalid and every permission is empty.
C10_Sector0Transport ==
    (TransportDump /\ Reported) =>
        /\ \A g \in 0..3 : blockrights[0][g] = <<0, 0, 0>>
        /\ Len(rows) = 4
        /\ IF q - 1 = 0
           THEN /\ \A k \in 1..4 : rows[k].accbits = "000"
                /\ rows[1].permissions = "-"
                /\ rows[2].permissions = TransportText
                /\ rows[3].permissions = TransportText
                /\ rows[4].permissions = "- A | A   - | A A [read B]"
           ELSE \A k \in 1..4 :
                    /\ rows[k].accbits = "ERR"
                    /\ rows[k].permissions = ""

\* that dump reported to its end, sector 0's groups still all 000
C10_Witness ==
    /\ TransportDump
    /\ pc = "done"
    /\ q = 16
    /\ blockrights[0][2] = <<0, 0, 0>>
    /\ rows[2].accbits = "ERR"

====
